---- MODULE Spec2Model ----
(***************************************************************************)
(* The fan-out / aggregation core of the prompting service:                *)
(*   core/gemini_client.py      GeminiClient (generate_response,           *)
(*                              _with_timeout, generate_multiple_responses)*)
(*   core/prompting_service.py  tree_of_thought_explore,                   *)
(*                              self_consistency_validate                  *)
(*   api/tree_of_thought.py     explore_problem   (HTTP handler)           *)
(*   api/self_consistency.py    validate_consistency (HTTP handler)        *)
(*   utils/validators.py        validate_request_data, _validate_field     *)
(*                                                                         *)
(* Spec:        one HTTP request handled from its body to its response.    *)
(* ExtractSpec: _extract_most_consistent_answer applied to a text.         *)
(* PairSpec:    two operations interleaved on one service and client.      *)
(*                                                                         *)
(* A text is a sequence of characters; an error message is a sequence of   *)
(* fragments whose concatenation is the Python string, so that a substring *)
(* test is a test for a fragment.                                          *)
(***************************************************************************)
EXTENDS Integers, Sequences, FiniteSets, TLC

VARIABLES
    body,        \* the HTTP request as it arrived: [kind, raw, text, n]
    double,      \* TRUE when the service holds a test double of the client
    analysis,    \* the text handed to _extract_most_consistent_answer
    answer,      \* what _extract_most_consistent_answer returned
    client,      \* the fields of the shared GeminiClient
    frames,      \* interleaved operations: the locals of each coroutine
    cells,       \* interleaved operations: the result cell of each remote call
    served,      \* interleaved operations: what the remote did for each call
    config,      \* generate_response: its arguments and the config it sends
    prompts,     \* the aggregation steps: their inputs and the prompts they build
    single,      \* the module globals of the two singletons and their callers
    request,     \* the arguments handed to the service: [kind, n, text]
    pc,          \* position of the handler / coroutine
    calls,       \* every generate_response invocation, in the order issued
    waited,      \* ticks the caller has spent in thread.join of the open call
    tasks,       \* self-consistency: the asyncio tasks, in creation order
    approaches,  \* tree-of-thought: the candidates collected so far
    responses,   \* self-consistency: what gather returned
    outcome,     \* what the service coroutine returned or raised
    http,        \* the handler's HTTP response
    loop         \* the handler's event loop: "none", "open" or "closed"

vars == <<body, double, analysis, answer, client, frames, cells, served, config, prompts, single, request, pc, calls, waited, tasks, approaches, responses,
          outcome, http, loop>>

\* What no step of a request's handling writes.
apart == <<config, prompts, single>>
aux == <<body, double, analysis, answer, client, frames, cells, served, apart>>

(***************************************************************************)
(* Bounds of the model.                                                    *)
(***************************************************************************)
\* thread.join(20): the 20 seconds are counted in this many clock ticks.
TicksPerTimeout == 2
\* The longest analysis text handed to _extract_most_consistent_answer.
MaxAnalysisLen == 4
\* The largest max_approaches / num_samples of two interleaved operations.
PairMaxN == 2

\* How many of the singleton functions each thread calls.
MaxCalls == 2

(***************************************************************************)
(* Program constants.                                                      *)
(***************************************************************************)
MinApproaches == 1
MaxApproaches == 5
MinSamples == 2
MaxSamples == 5
MinProblemLen == 10
MaxProblemLen == 2000
MinQuestionLen == 5
MaxQuestionLen == 1000
\* data.get('max_approaches', 3), data.get('num_samples', 3)
DefaultCount == 3
\* len(line.strip()) > 10
MeaningfulLen == 10
PreviewLen == 200
\* temperatures in tenths
DefaultTemperature == 7
ApproachTemperature == 6
EvaluationTemperature == 3
SampleTemperature == 7
AnalysisTemperature == 2

approach_names ==
    << "Direct Analytical Method",
       "Creative Innovation Method",
       "Systematic Process Method" >>

\* Mutant: the last criterion is left out.
selection_criteria_Three == <<"effectiveness", "feasibility", "completeness">>

selection_criteria == <<"effectiveness", "feasibility", "completeness", "innovation">>

Min(a, b) == IF a <= b THEN a ELSE b

(***************************************************************************)
(* Texts: str.strip() and the slice s[:k].                                 *)
(***************************************************************************)
Whitespace == {" ", "\n", "\t"}

RECURSIVE LStrip(_)
LStrip(s) ==
    IF s # <<>> /\ Head(s) \in Whitespace THEN LStrip(Tail(s)) ELSE s

RECURSIVE RStrip(_)
RStrip(s) ==
    IF s # <<>> /\ s[Len(s)] \in Whitespace
    THEN RStrip(SubSeq(s, 1, Len(s) - 1))
    ELSE s

Strip(s) == RStrip(LStrip(s))

Prefix_Whole(s, k) == s

\* s[:k]
Prefix(s, k) == SubSeq(s, 1, Min(k, Len(s)))

\* Longer stretches of text are kept as one element; len() counts their
\* characters.
Problem == "How can we reduce plastic waste in our city?"
ShortText == "Hi"
OverlongText == "x repeated 2001 times"
TenChars == "0123456789"
ElevenChars == "The answer."

FragLen(f) ==
    CASE f = Problem -> 44
      [] f = ShortText -> 2
      [] f = OverlongText -> 2001
      [] f = TenChars -> 10
      [] f = ElevenChars -> 11
      [] f = "Most Consistent" -> 15
      [] f = "most reliable" -> 13
      [] f = "Analysis inconclusive" -> 21
      [] OTHER -> 1

RECURSIVE TextLen(_)
TextLen(s) == IF s = <<>> THEN 0 ELSE FragLen(Head(s)) + TextLen(Tail(s))

\* What the remote model may answer.
RemoteTexts == { <<" ", "A">>, <<"B", "\n">> }

(***************************************************************************)
(* Error messages.                                                         *)
(***************************************************************************)
Contains(msg, frag) == \E i \in DOMAIN msg : msg[i] = frag

LowerFrag(f) ==
    CASE f = "Rate limit" -> "rate limit"
      [] f = " exceeded. Please wait before making another request."
             -> " exceeded. please wait before making another request."
      [] f = "Failed to generate response: " -> "failed to generate response: "
      [] f = "Failed to generate multiple responses: "
             -> "failed to generate multiple responses: "
      [] f = "Tree-of-thought exploration failed: "
             -> "tree-of-thought exploration failed: "
      [] f = "Self-consistency validation failed: "
             -> "self-consistency validation failed: "
      [] f = "Request timed out after 20 seconds. Please try a simpler query or check your API connection."
             -> "request timed out after 20 seconds. please try a simpler query or check your api connection."
      [] f = " RESOURCE_EXHAUSTED. Quota exceeded." -> " resource_exhausted. quota exceeded."
      [] f = "500 INTERNAL. Internal error." -> "500 internal. internal error."
      [] f = "400 INVALID_ARGUMENT. The input token count 1048"
             -> "400 invalid_argument. the input token count 1048"
      [] f = " exceeds the maximum." -> " exceeds the maximum."
      [] f = "Most Consistent" -> "most consistent"
      [] f = "The answer." -> "the answer."
      [] f = "Analysis inconclusive" -> "analysis inconclusive"
      [] OTHER -> f

Lower(msg) == [i \in DOMAIN msg |-> LowerFrag(msg[i])]

RateLimitMsg ==
    <<"Rate limit", " exceeded. Please wait before making another request.">>

TimeoutMsg ==
    <<"Request timed out after 20 seconds. Please try a simpler query or check your API connection.">>

\* Errors of the remote API as the client library raises them: whether the
\* remote signalled quota exhaustion, and str(e).
QuotaError ==
    [quota |-> TRUE, text |-> <<"429", " RESOURCE_EXHAUSTED. Quota exceeded.">>]
InternalError ==
    [quota |-> FALSE, text |-> <<"500 INTERNAL. Internal error.">>]
TokenCountError ==
    [quota |-> FALSE,
     text |-> <<"400 INVALID_ARGUMENT. The input token count 1048", "429",
                " exceeds the maximum.">>]

ThrottleError ==
    [quota |-> FALSE,
     text |-> <<"503 UNAVAILABLE. The backend's ", "rate limit", " was reached.">>]

RemoteErrors == {QuotaError, InternalError, TokenCountError, ThrottleError}

(***************************************************************************)
(* GeminiClient.generate_response                                          *)
(***************************************************************************)
\* temperature or self.default_temperature
EffectiveTemperature(temperature) ==
    IF temperature = 0 THEN DefaultTemperature ELSE temperature

\* The except clause of generate_response: str(e) decides what is re-raised.
IsRateLimitText(msg) ==
    Contains(msg, "429") \/ Contains(msg, "RESOURCE_EXHAUSTED")

Reraise(msg) ==
    IF IsRateLimitText(msg)
    THEN RateLimitMsg
    ELSE <<"Failed to generate response: ">> \o msg

NoCell == [kind |-> "empty", value |-> <<>>]

\* A generate_response invocation that has started its worker thread and
\* sits in thread.join.
NewCall(role, index, prompt, temperature) ==
    [ role        |-> role,
      index       |-> index,
      prompt      |-> prompt,
      temperature |-> EffectiveTemperature(temperature),
      phase       |-> "waiting",
      thread      |-> "alive",
      cell        |-> NoCell,
      cause       |-> "none",
      quota       |-> FALSE,
      out         |-> <<>> ]

Open == calls # <<>> /\ calls[Len(calls)].phase = "waiting"

\* _with_timeout after join: the thread stored a result.
Returned(c, text) ==
    [c EXCEPT !.phase = "returned", !.thread = "finished",
              !.cell = [kind |-> "result", value |-> text],
              !.out = text]

\* _with_timeout after join: the thread stored an exception, re-raised and
\* then caught by generate_response's except clause.
Raised(c, err) ==
    [c EXCEPT !.phase = "raised", !.thread = "finished",
              !.cell = [kind |-> "exception", value |-> err.text],
              !.cause = "remote", !.quota = err.quota,
              !.out = Reraise(err.text)]

\* _with_timeout after join: the thread is still alive.
TimedOut(c) ==
    [c EXCEPT !.phase = "raised", !.cause = "timeout",
              !.out = Reraise(TimeoutMsg)]

(***************************************************************************)
(* PromptingService: prompts and results                                   *)
(***************************************************************************)
\* Mutant: the cap is one short of the list of names.
NumApproaches_OneShort(max_approaches) ==
    Min(max_approaches, Len(approach_names) - 1)

\* range(min(max_approaches, len(approach_names)))
NumApproaches(max_approaches) == Min(max_approaches, Len(approach_names))

\* The f-string of the i-th approach (i counted from 1, as the prompt does).
ApproachPrompt(problem, i) ==
    [ template |-> "approach", text |-> problem,
      items |-> << [number |-> i, name |-> approach_names[i], body |-> <<>>] >> ]

\* Mutant: the candidate is numbered with the loop index, from 0.
Candidate_ZeroBased(i, response) ==
    [ approach_number |-> i - 1,
      approach_name   |-> approach_names[i],
      solution        |-> Strip(response) ]

\* approaches.append({...}) for loop index i - 1
Candidate(i, response) ==
    [ approach_number |-> i,
      approach_name   |-> approach_names[i],
      solution        |-> Strip(response) ]

\* _select_best_approach: the evaluation prompt
EvaluationPrompt(problem, cands) ==
    [ template |-> "evaluation", text |-> problem,
      items |-> [k \in DOMAIN cands |->
                    [ number |-> cands[k].approach_number,
                      name   |-> cands[k].approach_name,
                      body   |-> Prefix(cands[k].solution, PreviewLen) ]] ]

\* self_consistency.GENERAL_CONSISTENCY.format(question=question)
ConsistencyPrompt(question) ==
    [ template |-> "GENERAL_CONSISTENCY", text |-> question, items |-> <<>> ]

\* _analyze_consistency: the analysis prompt
AnalysisPrompt(question, resps) ==
    [ template |-> "analysis", text |-> question,
      items |-> [k \in DOMAIN resps |->
                    [number |-> k, name |-> "Response", body |-> resps[k]]] ]

\* analysis.split('\n'): the lines between the newlines, empty ones included
RECURSIVE Split(_)
Split(s) ==
    IF \A i \in DOMAIN s : s[i] # "\n" THEN <<s>>
    ELSE LET i == CHOOSE i \in DOMAIN s :
                      s[i] = "\n" /\ \A j \in 1..(i - 1) : s[j] # "\n"
         IN  <<SubSeq(s, 1, i - 1)>> \o Split(SubSeq(s, i + 1, Len(s)))

\* "most consistent" in line.lower() or "most reliable" in line.lower()
HasKeyword(line) ==
    Contains(Lower(line), "most consistent") \/ Contains(Lower(line), "most reliable")

\* Mutant: the last line with a keyword is taken.
KeywordLine_Last(lines) ==
    CHOOSE i \in DOMAIN lines :
        HasKeyword(lines[i]) /\ \A j \in DOMAIN lines : HasKeyword(lines[j]) => j <= i

\* for line in lines: if ...: return -- the line at which the loop returns
KeywordLine(lines) ==
    CHOOSE i \in DOMAIN lines :
        HasKeyword(lines[i]) /\ \A j \in 1..(i - 1) : ~HasKeyword(lines[j])

\* Mutant: ten characters are enough.
IsMeaningful_AtLeast(line) ==
    Strip(line) # <<>> /\ TextLen(Strip(line)) >= MeaningfulLen

\* line.strip() and len(line.strip()) > 10
IsMeaningful(line) == Strip(line) # <<>> /\ TextLen(Strip(line)) > MeaningfulLen

\* [line.strip() for line in lines if ...]
RECURSIVE meaningful_lines(_)
meaningful_lines(lines) ==
    IF lines = <<>> THEN <<>>
    ELSE (IF IsMeaningful(Head(lines)) THEN <<Strip(Head(lines))>> ELSE <<>>)
         \o meaningful_lines(Tail(lines))

_extract_most_consistent_answer(text) ==
    LET lines == Split(text)
    IN  IF \E i \in DOMAIN lines : HasKeyword(lines[i])
        THEN Strip(lines[KeywordLine(lines)])
        ELSE LET meaningful == meaningful_lines(lines)
             IN  IF meaningful # <<>> THEN meaningful[Len(meaningful)]
                 ELSE <<"Analysis inconclusive">>

ExploreResult(problem, max_approaches, cands, evaluation) ==
    [ technique |-> "Tree-of-Thought",
      input     |-> problem,
      output    |-> [ explored_approaches |-> cands,
                      best_approach |-> [ evaluation |-> Strip(evaluation),
                                          selection_criteria |-> selection_criteria ],
                      total_approaches |-> Len(cands) ],
      requested |-> max_approaches ]

\* Mutant: the whole analysis is given as the final answer.
ValidateResult_AnalysisAsAnswer(question, num_samples, resps, analysis_text) ==
    [ technique |-> "Self-Consistency",
      input     |-> question,
      output    |-> [ all_responses |-> resps,
                      consistency_analysis |->
                          [ analysis |-> Strip(analysis_text),
                            response_count |-> Len(resps),
                            most_consistent_answer |->
                                _extract_most_consistent_answer(analysis_text) ],
                      final_answer |-> Strip(analysis_text),
                      num_samples |-> num_samples ],
      requested |-> num_samples ]

ValidateResult(question, num_samples, resps, analysis_text) ==
    [ technique |-> "Self-Consistency",
      input     |-> question,
      output    |-> [ all_responses |-> resps,
                      consistency_analysis |->
                          [ analysis |-> Strip(analysis_text),
                            response_count |-> Len(resps),
                            most_consistent_answer |->
                                _extract_most_consistent_answer(analysis_text) ],
                      final_answer |-> _extract_most_consistent_answer(analysis_text),
                      num_samples |-> num_samples ],
      requested |-> num_samples ]

\* except Exception as e: raise Exception(f"... failed: {str(e)}")
ServiceError(kind, msg) ==
    IF kind = "explore"
    THEN <<"Tree-of-thought exploration failed: ">> \o msg
    ELSE <<"Self-consistency validation failed: ">> \o msg

\* generate_multiple_responses: except Exception as e: raise Exception(...)
MultipleError(msg) == <<"Failed to generate multiple responses: ">> \o msg

(***************************************************************************)
(* asyncio.gather over tasks that never yield                              *)
(***************************************************************************)
PendingTask == [state |-> "pending", value |-> <<>>]

Failed(ts) == {k \in DOMAIN ts : ts[k].state = "failed"}

\* Mutant: gather ends as soon as one task has failed and cancels the rest.
AllRun_FailFast(ts) ==
    \/ \E k \in DOMAIN ts : ts[k].state = "failed"
    \/ \A k \in DOMAIN ts : ts[k].state # "pending"

\* gather completes when every task has run.
AllRun(ts) == \A k \in DOMAIN ts : ts[k].state # "pending"

\* Mutant: the last failed task's exception wins.
FirstFailure_Last(ts) == CHOOSE k \in Failed(ts) : \A j \in Failed(ts) : k >= j

\* The task whose done-callback runs first among the failed ones.
FirstFailure(ts) == CHOOSE k \in Failed(ts) : \A j \in Failed(ts) : k <= j

\* Mutant: the values come back newest first.
GatherValues_Reversed(ts) == [k \in DOMAIN ts |-> ts[Len(ts) + 1 - k].value]

GatherValues(ts) == [k \in DOMAIN ts |-> ts[k].value]

(***************************************************************************)
(* The HTTP handlers' except clause                                        *)
(***************************************************************************)
NoData == [kind |-> "none"]

\* Mutant: only the status number is looked for.
IsRateLimitError_Only429(e) == Contains(e, "429")

IsRateLimitError(e) == Contains(Lower(e), "rate limit") \/ Contains(e, "429")

FailedCode(kind) ==
    IF kind = "explore" THEN "TREE_OF_THOUGHT_FAILED" ELSE "SELF_CONSISTENCY_FAILED"

ErrorResponse(kind, e) ==
    IF IsRateLimitError(e)
    THEN [ status |-> 429, code |-> "RATE_LIMIT_EXCEEDED",
           message |-> <<"Rate limit exceeded. Please wait before making another request.">>,
           data |-> NoData ]
    ELSE [ status |-> 500, code |-> FailedCode(kind), message |-> e, data |-> NoData ]

\* format_validation_error(validation_errors), 400
ValidationErrorResponse(errors) ==
    [ status |-> 400, code |-> "VALIDATION_ERROR",
      message |-> <<"Request validation failed">>,
      data |-> [kind |-> "validation_errors", value |-> errors] ]

SuccessResponse(result) ==
    [ status |-> 200, code |-> "OK", message |-> <<>>,
      data |-> [kind |-> "result", value |-> result] ]

(***************************************************************************)
(* Request bodies and utils/validators.py                                  *)
(***************************************************************************)
\* A JSON value: its Python type after parsing, its number (True is 1, a
\* float v stands for v + 0.5) and its string.
JAbsent == [type |-> "absent", v |-> 0, s |-> <<>>]
JNull == [type |-> "null", v |-> 0, s |-> <<>>]
JBool(b) == [type |-> "bool", v |-> IF b THEN 1 ELSE 0, s |-> <<>>]
JInt(k) == [type |-> "int", v |-> k, s |-> <<>>]
JFloat(k) == [type |-> "float", v |-> k, s |-> <<>>]
JStr(s) == [type |-> "str", v |-> 0, s |-> s]

\* isinstance(value, expected_type): bool is a subclass of int.
IsInstance(value, type) ==
    CASE type = "int" -> value.type \in {"int", "bool"}
      [] type = "str" -> value.type = "str"
      [] type = "number" -> value.type \in {"int", "bool", "float"}

\* value < bound and value > bound for an int, a bool or a float
Below(value, bound) == value.v < bound
Above(value, bound) ==
    IF value.type = "float" THEN value.v >= bound ELSE value.v > bound

\* The error of one field ("" for None).
_validate_field(value, rules) ==
    IF ~IsInstance(value, rules.type) THEN "type"
    ELSE IF IsInstance(value, "str") /\ "min_length" \in DOMAIN rules
            /\ rules.min_length # 0 /\ TextLen(value.s) < rules.min_length
    THEN "min_length"
    ELSE IF IsInstance(value, "str") /\ "max_length" \in DOMAIN rules
            /\ rules.max_length # 0 /\ TextLen(value.s) > rules.max_length
    THEN "max_length"
    ELSE IF IsInstance(value, "number") /\ "min_value" \in DOMAIN rules
            /\ Below(value, rules.min_value)
    THEN "min_value"
    ELSE IF IsInstance(value, "number") /\ "max_value" \in DOMAIN rules
            /\ Above(value, rules.max_value)
    THEN "max_value"
    ELSE ""

\* SCHEMAS: the text field is called "text" and the count field "n" for both
\* endpoints (problem / max_approaches, question / num_samples).
SCHEMAS ==
    [ explore |->
        [ required |-> {"text"},
          fields |-> [ text |-> [type |-> "str", min_length |-> MinProblemLen,
                                 max_length |-> MaxProblemLen],
                       n |-> [type |-> "int", min_value |-> MinApproaches,
                              max_value |-> MaxApproaches] ] ],
      validate |->
        [ required |-> {"text"},
          fields |-> [ text |-> [type |-> "str", min_length |-> MinQuestionLen,
                                 max_length |-> MaxQuestionLen],
                       n |-> [type |-> "int", min_value |-> MinSamples,
                              max_value |-> MaxSamples] ] ] ]

\* The errors dictionary: the last error written for each field, "" for none.
validate_request_data(data, schema) ==
    [ field \in DOMAIN schema.fields |->
        LET value == data[field]
            present == value.type \notin {"absent", "null"}
            required_error ==
                IF field \notin schema.required THEN ""
                ELSE IF ~present THEN "required"
                ELSE IF IsInstance(value, "str") /\ Strip(value.s) = <<>> THEN "empty"
                ELSE ""
            field_errors ==
                IF present THEN _validate_field(value, schema.fields[field]) ELSE ""
        IN  IF field_errors # "" THEN field_errors ELSE required_error ]

\* if validation_errors: a dictionary with a key
HasErrors(errors) == \E field \in DOMAIN errors : errors[field] # ""

\* request.get_json() on a request that declares application/json: the parsed
\* document, or BadRequest when the body is not a JSON document.
BadRequestMsg ==
    <<"400 Bad Request: The browser (or proxy) sent a request that this server could not understand.">>

get_json(b) ==
    IF b.raw \in {"missing", "empty", "invalid"}
    THEN [raised |-> TRUE, data |-> JNull]
    ELSE IF b.raw = "null"
    THEN [raised |-> FALSE, data |-> JNull]
    ELSE [raised |-> FALSE, data |-> [type |-> "dict", text |-> b.text, n |-> b.n]]

\* data.get(key, default)
DictGet(value, default) == IF value.type = "absent" THEN JInt(default) ELSE value

\* str(e) of the TypeErrors that a None raises
NotIterableMsg == <<"argument of type 'NoneType' is not iterable">>
MinNoneMsg == <<"'<' not supported between instances of 'int' and 'NoneType'">>
RangeNoneMsg == <<"'NoneType' object cannot be interpreted as an integer">>

(***************************************************************************)
(* The state machine                                                       *)
(***************************************************************************)
NoOutcome == [kind |-> "none", value |-> <<>>]
NoResponse == [status |-> 0, code |-> "", message |-> <<>>, data |-> NoData]

\* The bodies a client may post with Content-Type application/json: no JSON
\* document at all, the document null, or an object whose text field and
\* count field are absent or hold a value of some JSON type.
BlankText == <<" ", "\t", " ">>

TextValues ==
    { JAbsent, JNull, JInt(MaxApproaches), JStr(<<>>), JStr(BlankText),
      JStr(<<ShortText>>), JStr(<<Problem>>), JStr(<<OverlongText>>) }

CountValues ==
    { JAbsent, JNull, JBool(TRUE), JBool(FALSE), JFloat(MinSamples), JStr(<<"3">>) }
    \cup { JInt(k) : k \in (MinApproaches - 1)..(MaxApproaches + 1) }

Bodies ==
    [kind : {"explore", "validate"}, raw : {"object"},
     text : TextValues, n : CountValues]
    \cup [kind : {"explore", "validate"}, raw : {"missing", "empty", "invalid", "null"},
           text : {JAbsent}, n : {JAbsent}]

\* The service calls _async_generate(prompt, temperature=...), while
\* GeminiClient._async_generate(prompt, temperature, thinking_budget) has no
\* default for thinking_budget: str(e) of the TypeError of that call.
MissingArgumentMsg ==
    <<"GeminiClient._async_generate() missing 1 required positional argument: 'thinking_budget'">>

\* A test double of the client, installed in place of get_gemini_client: its
\* _async_generate(prompt, temperature=None) takes the service's call.  The
\* request it is driven with in the end-to-end scenario and the answers it
\* is scripted to give there.
ScenarioBody ==
    [kind |-> "explore", raw |-> "object", text |-> JStr(<<Problem>>), n |-> JInt(3)]

ScriptedAnswer(role, index) ==
    IF role = "approach"
    THEN << <<"A">>, <<"B">>, <<"C">> >>[index]
    ELSE <<"Approach 2 is best">>

\* What a double may be scripted to return for a call, and the errors it may
\* be scripted to raise: those generate_response raises.
AnalysisTexts ==
    { <<" ", "Most Consistent", " ", "\n", ElevenChars>>,
      <<TenChars, "\n", " ", ElevenChars, " ", "\n", " ">>,
      <<TenChars, "\n", " ">> }

DoubleTexts(role, index) ==
    RemoteTexts \cup {ScriptedAnswer(role, index)}
        \cup (IF role = "synthesis" THEN AnalysisTexts ELSE {})

DoubleErrors ==
    { RateLimitMsg,
      <<"Failed to generate response: ">> \o InternalError.text,
      <<"Failed to generate response: ">> \o TimeoutMsg }

\* _extract_most_consistent_answer has not returned (a trimmed line is never
\* a newline).
NoAnswer == <<"\n">>

\* GeminiClient.__init__ with the defaults of the environment.
TheClient ==
    [ api_key |-> "GEMINI_API_KEY", model |-> "gemini-2.5-flash",
      default_temperature |-> DefaultTemperature,
      default_thinking_budget |-> 5000 ]

\* The optional arguments of generate_response: None, or a number.
None == [set |-> FALSE, v |-> 0]
Some(v) == [set |-> TRUE, v |-> v]

\* generate_response is not being called on its own.
NoConfig ==
    [ temperature |-> None, thinking_budget |-> None, sent |-> FALSE,
      sent_temperature |-> 0, sent_thinking_budget |-> 0 ]

\* No aggregation step is being run on its own.
NoPrompt == [template |-> "none", text |-> <<>>, items |-> <<>>]

NoPrompts ==
    [ approaches |-> <<>>, responses |-> <<>>,
      evaluation |-> NoPrompt, analysis |-> NoPrompt ]

\* The threads that call the singleton functions.
Threads == {1, 2}

IdleThread == [op |-> "none", pc |-> "idle", got |-> 0, made |-> 0]

\* The modules are loaded: _gemini_client_instance = None and
\* _prompting_service_instance = None (0 stands for None; the k-th
\* GeminiClient constructed is k, and the k-th PromptingService is k, holding
\* the client services[k]).
NoSingle ==
    [ gemini |-> 0, service |-> 0, clients |-> 0, services |-> <<>>,
      initialized |-> 0, handed |-> {},
      threads |-> [t \in Threads |-> IdleThread] ]

\* What the specifications of single functions work on is not in use.
Apart ==
    /\ config = NoConfig
    /\ prompts = NoPrompts
    /\ single = NoSingle

\* No operations are interleaved.
NoPair ==
    /\ client = TheClient
    /\ frames = <<>>
    /\ cells = <<>>
    /\ served = <<>>

Init ==
    /\ double \in BOOLEAN
    /\ body \in Bodies
    /\ analysis = <<>>
    /\ answer = NoAnswer
    /\ NoPair
    /\ Apart
    /\ request = [kind |-> body.kind, n |-> 0, text |-> <<>>]
    /\ pc = "received"
    /\ calls = <<>>
    /\ waited = 0
    /\ tasks = <<>>
    /\ approaches = <<>>
    /\ responses = <<>>
    /\ outcome = NoOutcome
    /\ http = NoResponse
    /\ loop = "none"

\* The handler returns before the service is called.
Answer(response) ==
    /\ http' = response
    /\ pc' = "done"
    /\ UNCHANGED <<request, outcome, tasks, loop>>

\* The coroutine returned: run_until_complete returns, finally closes the
\* loop and the handler answers 200.
Succeed(result) ==
    /\ outcome' = [kind |-> "result", value |-> result]
    /\ http' = SuccessResponse(result)
    /\ loop' = "closed"
    /\ pc' = "done"

\* Mutant: the loop is closed only after run_until_complete has returned.
Fail_NoFinally(msg) ==
    /\ outcome' = [kind |-> "raised", value |-> ServiceError(request.kind, msg)]
    /\ http' = ErrorResponse(request.kind, ServiceError(request.kind, msg))
    /\ loop' = "open"
    /\ pc' = "done"

\* An exception reached the service's except clause: it is wrapped, leaves
\* run_until_complete, finally closes the loop, and the exception reaches
\* the handler's except clause.
Fail(msg) ==
    /\ outcome' = [kind |-> "raised", value |-> ServiceError(request.kind, msg)]
    /\ http' = ErrorResponse(request.kind, ServiceError(request.kind, msg))
    /\ loop' = "closed"
    /\ pc' = "done"

\* explore_problem up to the first await of the coroutine: get_json, the
\* validation, data.get('max_approaches', 3), and min(max_approaches, 3).
explore_problem ==
    /\ pc = "received"
    /\ body.kind = "explore"
    /\ LET parsed == get_json(body)
           data == parsed.data
       IN  IF parsed.raised THEN Answer(ErrorResponse("explore", BadRequestMsg))
           ELSE IF data.type = "null"
           THEN Answer(ErrorResponse("explore", NotIterableMsg))
           ELSE LET validation_errors == validate_request_data(data, SCHEMAS.explore)
                    max_approaches == DictGet(data.n, DefaultCount)
                IN  IF HasErrors(validation_errors)
                    THEN Answer(ValidationErrorResponse(validation_errors))
                    ELSE IF max_approaches.type = "null"
                    THEN /\ request' = [request EXCEPT !.text = data.text.s]
                         /\ Fail(MinNoneMsg)
                         /\ UNCHANGED tasks
                    ELSE /\ request' = [ kind |-> "explore", n |-> max_approaches.v,
                                         text |-> data.text.s ]
                         /\ pc' = "fanout"
                         /\ loop' = "open"
                         /\ UNCHANGED <<outcome, http, tasks>>
    /\ UNCHANGED <<calls, waited, approaches, responses>>
    /\ UNCHANGED aux

\* validate_consistency up to the first await: get_json, the validation,
\* data.get('num_samples', 3), and the create_task loop of
\* GeminiClient.generate_multiple_responses (a double creates no tasks).
validate_consistency ==
    /\ pc = "received"
    /\ body.kind = "validate"
    /\ LET parsed == get_json(body)
           data == parsed.data
       IN  IF parsed.raised THEN Answer(ErrorResponse("validate", BadRequestMsg))
           ELSE IF data.type = "null"
           THEN Answer(ErrorResponse("validate", NotIterableMsg))
           ELSE LET validation_errors == validate_request_data(data, SCHEMAS.validate)
                    num_samples == DictGet(data.n, DefaultCount)
                IN  IF HasErrors(validation_errors)
                    THEN Answer(ValidationErrorResponse(validation_errors))
                    ELSE IF num_samples.type = "null"
                    THEN /\ request' = [request EXCEPT !.text = data.text.s]
                         /\ Fail(IF double THEN RangeNoneMsg
                                 ELSE MultipleError(RangeNoneMsg))
                         /\ UNCHANGED tasks
                    ELSE /\ request' = [ kind |-> "validate", n |-> num_samples.v,
                                         text |-> data.text.s ]
                         /\ tasks' = IF double THEN <<>>
                                     ELSE [k \in 1..num_samples.v |-> PendingTask]
                         /\ pc' = "fanout"
                         /\ loop' = "open"
                         /\ UNCHANGED <<outcome, http>>
    /\ UNCHANGED <<calls, waited, approaches, responses>>
    /\ UNCHANGED aux

\* tree_of_thought_explore: one iteration of the loop reaches
\* _async_generate(approach_prompt, temperature=0.6).  The GeminiClient
\* raises the TypeError of the missing argument before anything is
\* generated; a double takes the call.
IssueApproach ==
    /\ pc = "fanout"
    /\ request.kind = "explore"
    /\ ~Open
    /\ Len(approaches) < NumApproaches(request.n)
    /\ IF double
       THEN /\ LET i == Len(approaches) + 1
               IN  calls' = Append(calls, NewCall("approach", i,
                                       ApproachPrompt(request.text, i),
                                       ApproachTemperature))
            /\ UNCHANGED <<pc, outcome, http, loop>>
       ELSE /\ Fail(MissingArgumentMsg)
            /\ UNCHANGED calls
    /\ waited' = 0
    /\ UNCHANGED <<request, tasks, approaches, responses>>
    /\ UNCHANGED aux

\* tree_of_thought_explore: the loop is over, _select_best_approach calls
\* _async_generate(evaluation_prompt, temperature=0.3).  With the GeminiClient
\* the loop never gets this far.
IssueEvaluation ==
    /\ pc = "fanout"
    /\ request.kind = "explore"
    /\ double
    /\ ~Open
    /\ Len(approaches) = NumApproaches(request.n)
    /\ calls' = Append(calls, NewCall("synthesis", 0,
                           EvaluationPrompt(request.text, approaches),
                           EvaluationTemperature))
    /\ waited' = 0
    /\ pc' = "synthesis"
    /\ UNCHANGED <<request, tasks, approaches, responses, outcome, http, loop>>
    /\ UNCHANGED aux

\* The event loop runs the next task; _async_generate(prompt, temperature,
\* thinking_budget) calls generate_response.
RunTask ==
    /\ pc = "fanout"
    /\ request.kind = "validate"
    /\ ~double
    /\ ~Open
    /\ \E k \in DOMAIN tasks :
         /\ tasks[k].state = "pending"
         /\ \A j \in 1..(k - 1) : tasks[j].state # "pending"
         /\ calls' = Append(calls, NewCall("sample", k,
                                ConsistencyPrompt(request.text), SampleTemperature))
    /\ waited' = 0
    /\ UNCHANGED <<request, pc, tasks, approaches, responses, outcome, http, loop>>
    /\ UNCHANGED aux

\* gather returned every task's value; _analyze_consistency builds its prompt
\* and calls _async_generate(analysis_prompt, temperature=0.2), which raises
\* the TypeError of the missing argument.
GatherReturn ==
    /\ pc = "fanout"
    /\ request.kind = "validate"
    /\ ~double
    /\ ~Open
    /\ AllRun(tasks)
    /\ Failed(tasks) = {}
    /\ responses' = GatherValues(tasks)
    /\ Fail(MissingArgumentMsg)
    /\ UNCHANGED <<request, calls, waited, tasks, approaches>>
    /\ UNCHANGED aux

\* A double's generate_multiple_responses(prompt, num_samples, temperature)
\* returns its list of num_samples texts; _analyze_consistency then calls
\* the double's _async_generate.
DoubleSamples ==
    /\ pc = "fanout"
    /\ request.kind = "validate"
    /\ double
    /\ ~Open
    /\ \E texts \in [1..request.n -> RemoteTexts] :
         /\ responses' = texts
         /\ calls' = [k \in 1..request.n |->
                         [NewCall("sample", k, ConsistencyPrompt(request.text),
                                  SampleTemperature)
                            EXCEPT !.phase = "returned", !.thread = "none",
                                   !.out = texts[k]]]
                     \o <<NewCall("synthesis", 0,
                                  AnalysisPrompt(request.text, texts),
                                  AnalysisTemperature)>>
    /\ waited' = 0
    /\ pc' = "synthesis"
    /\ UNCHANGED <<request, tasks, approaches, outcome, http, loop>>
    /\ UNCHANGED aux

\* gather raised the first failed task's exception.
GatherRaise ==
    /\ pc = "fanout"
    /\ request.kind = "validate"
    /\ ~Open
    /\ AllRun(tasks)
    /\ ~double
    /\ Failed(tasks) # {}
    /\ Fail(MultipleError(tasks[FirstFailure(tasks)].value))
    /\ UNCHANGED <<request, calls, waited, tasks, approaches, responses>>
    /\ UNCHANGED aux

\* Mutant: a failed approach is kept as an empty candidate and the loop goes on.
AfterApproach_Swallow(c) ==
    /\ approaches' = Append(approaches,
                         Candidate(c.index, IF c.phase = "returned" THEN c.out ELSE <<>>))
    /\ UNCHANGED <<pc, outcome, http, loop>>

\* Mutant: a failed synthesis degrades to a result without an evaluation.
AfterSynthesis_BestEffort(c) ==
    Succeed(IF request.kind = "explore"
            THEN ExploreResult(request.text, request.n, approaches,
                               IF c.phase = "returned" THEN c.out ELSE <<>>)
            ELSE ValidateResult(request.text, request.n, responses,
                                IF c.phase = "returned" THEN c.out ELSE <<>>))

\* The awaiting coroutine continues with what generate_response did.
AfterApproach(c) ==
    IF c.phase = "returned"
    THEN /\ approaches' = Append(approaches, Candidate(c.index, c.out))
         /\ UNCHANGED <<pc, outcome, http, loop>>
    ELSE /\ Fail(c.out)
         /\ UNCHANGED approaches

AfterSample(c) ==
    tasks' = [tasks EXCEPT ![c.index] =
                 [ state |-> IF c.phase = "returned" THEN "done" ELSE "failed",
                   value |-> c.out ]]

AfterSynthesis(c) ==
    IF c.phase = "returned"
    THEN Succeed(IF request.kind = "explore"
                 THEN ExploreResult(request.text, request.n, approaches, c.out)
                 ELSE ValidateResult(request.text, request.n, responses, c.out))
    ELSE Fail(c.out)

Complete(c) ==
    /\ calls' = [calls EXCEPT ![Len(calls)] = c]
    /\ waited' = 0
    /\ CASE c.role = "approach" ->
              AfterApproach(c) /\ UNCHANGED <<tasks>>
         [] c.role = "sample" ->
              AfterSample(c) /\ UNCHANGED <<pc, approaches, outcome, http, loop>>
         [] c.role = "synthesis" ->
              AfterSynthesis(c) /\ UNCHANGED <<tasks, approaches>>
    /\ UNCHANGED <<request, responses>>
    /\ UNCHANGED aux

\* The double returns what it is scripted to return.
DoubleReturn ==
    /\ Open
    /\ double
    /\ LET c == calls[Len(calls)]
       IN  \E t \in DoubleTexts(c.role, c.index) :
              Complete([c EXCEPT !.phase = "returned", !.thread = "none", !.out = t])

\* The double raises what it is scripted to raise.
DoubleRaise ==
    /\ Open
    /\ double
    /\ LET c == calls[Len(calls)]
       IN  \E e \in DoubleErrors :
              Complete([c EXCEPT !.phase = "raised", !.thread = "none",
                                !.cause = "double", !.out = e])

\* The remote call answers while the caller is in thread.join.
RemoteReturn ==
    /\ Open
    /\ ~double
    /\ \E t \in RemoteTexts : Complete(Returned(calls[Len(calls)], t))

\* The remote call raises while the caller is in thread.join.
RemoteRaise ==
    /\ Open
    /\ ~double
    /\ \E e \in RemoteErrors : Complete(Raised(calls[Len(calls)], e))

\* Time passes in thread.join(timeout_seconds).
Tick ==
    /\ Open
    /\ ~double
    /\ waited < TicksPerTimeout
    /\ waited' = waited + 1
    /\ UNCHANGED <<request, pc, calls, tasks, approaches, responses, outcome, http, loop>>
    /\ UNCHANGED aux

\* Mutant: thread.join() without a timeout.
JoinTimeout_Never ==
    /\ Open
    /\ ~double
    /\ waited > TicksPerTimeout
    /\ Complete(TimedOut(calls[Len(calls)]))

\* Mutant: a request that timed out is issued once more.
JoinTimeout_Retry ==
    /\ Open
    /\ ~double
    /\ waited = TicksPerTimeout
    /\ LET c == calls[Len(calls)]
       IN  calls' = Append([calls EXCEPT ![Len(calls)] = TimedOut(c)],
                           [c EXCEPT !.phase = "waiting"])
    /\ waited' = 0
    /\ UNCHANGED <<request, pc, tasks, approaches, responses, outcome, http, loop>>
    /\ UNCHANGED aux

\* thread.join returned with the thread still alive.
JoinTimeout ==
    /\ Open
    /\ ~double
    /\ waited = TicksPerTimeout
    /\ Complete(TimedOut(calls[Len(calls)]))

\* What an abandoned worker thread may still store in its own cells.
LateCells ==
    { [kind |-> "result", value |-> <<"B", "\n">>],
      [kind |-> "exception", value |-> InternalError.text] }

\* An abandoned daemon thread finishes after its caller timed out.
LateFinish ==
    /\ \E k \in DOMAIN calls :
         /\ calls[k].cause = "timeout"
         /\ calls[k].thread = "alive"
         /\ \E cell \in LateCells :
              calls' = [calls EXCEPT ![k].thread = "finished", ![k].cell = cell]
    /\ UNCHANGED <<request, pc, waited, tasks, approaches, responses, outcome, http, loop>>
    /\ UNCHANGED aux

Next ==
    \/ explore_problem
    \/ validate_consistency
    \/ IssueApproach
    \/ IssueEvaluation
    \/ RunTask
    \/ GatherReturn
    \/ GatherRaise
    \/ DoubleSamples
    \/ DoubleReturn
    \/ DoubleRaise
    \/ RemoteReturn
    \/ RemoteRaise
    \/ Tick
    \/ JoinTimeout
    \/ LateFinish

Spec == Init /\ [][Next]_vars

(***************************************************************************)
(* _extract_most_consistent_answer on its own                              *)
(***************************************************************************)
\* What an analysis is made of: newlines, blanks, the two keywords (one in
\* capitals), a text of ten characters and one of eleven.
AnalysisAlphabet ==
    {"\n", " ", "Most Consistent", "most reliable", TenChars, ElevenChars}

RECURSIVE TextsUpTo(_)
TextsUpTo(n) ==
    IF n = 0 THEN {<<>>}
    ELSE LET shorter == TextsUpTo(n - 1)
         IN  shorter \cup {Append(t, a) : t \in shorter, a \in AnalysisAlphabet}

\* No request is being handled.
Idle ==
    /\ double = FALSE
    /\ body = ScenarioBody
    /\ request = [kind |-> "validate", n |-> 0, text |-> <<>>]
    /\ pc = "idle"
    /\ calls = <<>>
    /\ waited = 0
    /\ tasks = <<>>
    /\ approaches = <<>>
    /\ responses = <<>>
    /\ outcome = NoOutcome
    /\ http = NoResponse
    /\ loop = "none"

ExtractInit ==
    /\ analysis \in TextsUpTo(MaxAnalysisLen)
    /\ answer = NoAnswer
    /\ NoPair
    /\ Apart
    /\ Idle

Extract ==
    /\ answer = NoAnswer
    /\ answer' = _extract_most_consistent_answer(analysis)
    /\ UNCHANGED <<body, double, analysis, request, pc, calls, waited, tasks,
                   approaches, responses, outcome, http, loop>>
    /\ UNCHANGED <<client, frames, cells, served, apart>>

ExtractNext == Extract

ExtractSpec == ExtractInit /\ [][ExtractNext]_vars

(***************************************************************************)
(* Two operations interleaved on one service and one client: each handler  *)
(* thread runs its own event loop, and the threads take turns whenever one *)
(* of them waits in thread.join.                                           *)
(***************************************************************************)
Ops == {1, 2}

\* The calls an operation can make: its samples.
CallIds == 1..PairMaxN

\* The text and the remote answers of the two operations differ, so that
\* what an operation returns shows where it came from.
OpText(o) == IF o = 1 THEN <<Problem>> ELSE <<"Why is the sky blue?">>

RemoteAnswer(o, k) ==
    IF o = 1 THEN <<" ", <<"a1", "a2", "a3", "a4", "a5", "a6">>[k]>>
    ELSE <<<<"b1", "b2", "b3", "b4", "b5", "b6">>[k], "\n">>

\* What the remote may do for the k-th call of operation o.
RemoteBehaviours(o, k) ==
    { [kind |-> "text", value |-> RemoteAnswer(o, k)],
      [kind |-> "error", value |-> InternalError.text] }

NotServed == [kind |-> "none", value |-> <<>>]

\* Mutant: the locals of the coroutines live on the shared service object.
FrameOf_Shared(o) == 1

\* approaches = [], tasks = [] ...: each invocation of the coroutine has its
\* own locals.
FrameOf(o) == o

\* Mutant: the result cell is a field of the shared client.
CellOf_Shared(o, k) == <<1, 1>>

\* result = [None]; exception = [None]: each invocation of _with_timeout has
\* its own cells.
CellOf(o, k) == <<o, k>>

NewFrame(kind, n, text) ==
    [ kind |-> kind, n |-> n, text |-> text, pc |-> "fanout", calls |-> <<>>,
      tasks |-> IF kind = "validate" THEN [k \in 1..n |-> PendingTask] ELSE <<>>,
      approaches |-> <<>>, responses |-> <<>>, outcome |-> NoOutcome ]

OpenCall(f) == f.calls # <<>> /\ f.calls[Len(f.calls)].phase = "waiting"

Raise(f, kind, msg) ==
    [f EXCEPT !.pc = "done",
              !.outcome = [kind |-> "raised", value |-> ServiceError(kind, msg)]]

\* The coroutine runs up to its next generate_response or to its end: the
\* exploration ends at its first _async_generate(prompt, temperature=0.6),
\* the validation runs its tasks and ends at _analyze_consistency's
\* _async_generate(prompt, temperature=0.2).
Advance(f) ==
    IF f.kind = "explore"
    THEN Raise(f, "explore", MissingArgumentMsg)
    ELSE IF ~AllRun(f.tasks)
         THEN LET k == CHOOSE k \in DOMAIN f.tasks :
                           /\ f.tasks[k].state = "pending"
                           /\ \A j \in 1..(k - 1) : f.tasks[j].state # "pending"
              IN  [f EXCEPT !.calls = Append(@, NewCall("sample", k,
                                          ConsistencyPrompt(f.text), SampleTemperature))]
         ELSE IF Failed(f.tasks) = {}
         THEN Raise([f EXCEPT !.responses = GatherValues(f.tasks)],
                    "validate", MissingArgumentMsg)
         ELSE Raise(f, "validate", MultipleError(f.tasks[FirstFailure(f.tasks)].value))

\* The task continues with what its generate_response did.
AfterCall(f, c) ==
    [f EXCEPT !.calls[Len(f.calls)] = c,
              !.tasks[c.index] =
                  [ state |-> IF c.phase = "returned" THEN "done" ELSE "failed",
                    value |-> c.out ]]

\* The operations that can be interleaved within the bound.
PairFrames(o) ==
    { NewFrame("explore", n, OpText(o)) : n \in MinApproaches..PairMaxN }
    \cup { NewFrame("validate", n, OpText(o)) : n \in MinSamples..PairMaxN }

\* Both coroutines have been called.
PairInit ==
    /\ client = TheClient
    /\ frames \in {f \in [Ops -> PairFrames(1) \cup PairFrames(2)] :
                       \A o \in Ops : f[o] \in PairFrames(o)}
    /\ cells = [key \in Ops \X CallIds |-> NoCell]
    /\ served = [o \in Ops |-> [k \in CallIds |-> NotServed]]
    /\ analysis = <<>>
    /\ answer = NoAnswer
    /\ Apart
    /\ Idle

PairFrame ==
    UNCHANGED <<body, double, analysis, answer, client, request, pc, calls, waited,
                tasks, approaches, responses, outcome, http, loop, apart>>

\* Operation o runs up to its next generate_response, which starts a worker
\* thread and waits in thread.join.
PairRun(o) ==
    /\ frames[FrameOf(o)].pc \in {"fanout"}
    /\ ~OpenCall(frames[FrameOf(o)])
    /\ frames' = [frames EXCEPT ![FrameOf(o)] = Advance(@)]
    /\ UNCHANGED <<cells, served>>
    /\ PairFrame

\* Mutant: a worker that ends after its caller timed out hands its result
\* to that call all the same.
PairWorker_LateDelivers(o) ==
    /\ \E k \in DOMAIN frames[FrameOf(o)].calls :
         /\ frames[FrameOf(o)].calls[k].thread = "alive"
         /\ \E b \in RemoteBehaviours(o, k) :
              /\ cells' = [cells EXCEPT ![CellOf(o, k)] =
                               [ kind |-> IF b.kind = "text" THEN "result" ELSE "exception",
                                 value |-> b.value ]]
              /\ served' = IF frames[FrameOf(o)].calls[k].phase = "waiting"
                           THEN [served EXCEPT ![o][k] = b]
                           ELSE served
              /\ frames' = [frames EXCEPT ![FrameOf(o)].calls[k].thread = "finished",
                                          ![FrameOf(o)].calls[k].out =
                                              IF frames[FrameOf(o)].calls[k].phase = "waiting"
                                              THEN @ ELSE b.value]
    /\ PairFrame

\* The worker thread of a call ends: target() stores what the remote did;
\* the worker of a call that timed out stores it for nobody.
PairWorker(o) ==
    /\ \E k \in DOMAIN frames[FrameOf(o)].calls :
         /\ frames[FrameOf(o)].calls[k].thread = "alive"
         /\ \E b \in RemoteBehaviours(o, k) :
              /\ cells' = [cells EXCEPT ![CellOf(o, k)] =
                               [ kind |-> IF b.kind = "text" THEN "result" ELSE "exception",
                                 value |-> b.value ]]
              /\ served' = IF frames[FrameOf(o)].calls[k].phase = "waiting"
                           THEN [served EXCEPT ![o][k] = b]
                           ELSE served
         /\ frames' = [frames EXCEPT ![FrameOf(o)].calls[k].thread = "finished"]
    /\ PairFrame

\* thread.join returns because the worker ended: _with_timeout reads its
\* cells and generate_response returns or raises.
PairJoin(o) ==
    /\ OpenCall(frames[FrameOf(o)])
    /\ LET f == frames[FrameOf(o)]
           k == Len(f.calls)
           c == f.calls[k]
           cell == cells[CellOf(o, k)]
       IN  /\ c.thread = "finished"
           /\ frames' = [frames EXCEPT ![FrameOf(o)] =
                   AfterCall(f, IF cell.kind = "exception"
                                THEN Raised(c, [quota |-> FALSE, text |-> cell.value])
                                ELSE Returned(c, cell.value))]
    /\ UNCHANGED <<cells, served>>
    /\ PairFrame

\* thread.join returns because the timeout passed with the worker alive.
PairTimeout(o) ==
    /\ OpenCall(frames[FrameOf(o)])
    /\ LET f == frames[FrameOf(o)]
           k == Len(f.calls)
       IN  /\ f.calls[k].thread = "alive"
           /\ frames' = [frames EXCEPT ![FrameOf(o)] = AfterCall(f, TimedOut(f.calls[k]))]
           /\ served' = [served EXCEPT ![o][k] = [kind |-> "timeout", value |-> TimeoutMsg]]
    /\ UNCHANGED cells
    /\ PairFrame

PairNext ==
    \E o \in Ops :
        \/ PairRun(o)
        \/ PairWorker(o)
        \/ PairJoin(o)
        \/ PairTimeout(o)

PairSpec == PairInit /\ [][PairNext]_vars

(***************************************************************************)
(* generate_response: the config built from its optional arguments          *)
(***************************************************************************)
\* x or default: None and 0 are both false.
OrDefault(x, default) == IF x.set /\ x.v # 0 THEN x.v ELSE default

\* Temperatures in tenths, 0.0 to 1.0, and some thinking budgets.
Temperatures == 0..10
ThinkingBudgets == {0, 1, 1000, 5000, 8000, 24576}

ConfigInit ==
    /\ prompts = NoPrompts
    /\ single = NoSingle
    /\ config \in [ temperature : {None} \cup {Some(t) : t \in Temperatures},
                     thinking_budget : {None} \cup {Some(b) : b \in ThinkingBudgets},
                     sent : {FALSE}, sent_temperature : {0},
                     sent_thinking_budget : {0} ]
    /\ analysis = <<>>
    /\ answer = NoAnswer
    /\ NoPair
    /\ Idle

\* generate_response builds types.GenerateContentConfig and sends it.
GenerateContentConfig ==
    /\ ~config.sent
    /\ config' = [config EXCEPT
                     !.sent = TRUE,
                     !.sent_temperature =
                         OrDefault(config.temperature, client.default_temperature),
                     !.sent_thinking_budget =
                         OrDefault(config.thinking_budget, client.default_thinking_budget)]
    /\ UNCHANGED <<body, double, analysis, answer, client, frames, cells, served,
                   prompts, single, request, pc, calls, waited, tasks,
                   approaches, responses, outcome, http, loop>>

ConfigNext == GenerateContentConfig

ConfigSpec == ConfigInit /\ [][ConfigNext]_vars

(***************************************************************************)
(* _select_best_approach and _analyze_consistency: the prompts they build   *)
(***************************************************************************)
\* n times the character ch
Fill(n, ch) == [i \in 1..n |-> ch]

\* Solutions and samples around the length of the preview: one character,
\* exactly the preview, one character more, and a quarter more.
LongTexts ==
    { <<"A">>,
      Fill(PreviewLen, "a"),
      Fill(PreviewLen, "a") \o <<"b">>,
      Fill(PreviewLen - 50, "c") \o Fill(100, "d") }

SampleTexts == { <<"A">>, Fill(PreviewLen - 50, "c") \o Fill(100, "d") }

\* The candidates of an exploration that got n answers.
CandidateLists ==
    UNION { { [k \in 1..n |-> Candidate(k, f[k])] : f \in [1..n -> LongTexts] } :
            n \in MinApproaches..Len(approach_names) }

SampleLists == UNION { [1..n -> SampleTexts] : n \in MinSamples..MaxSamples }

PromptInit ==
    /\ prompts \in [ approaches : CandidateLists, responses : SampleLists,
                      evaluation : {NoPrompt}, analysis : {NoPrompt} ]
    /\ config = NoConfig
    /\ single = NoSingle
    /\ analysis = <<>>
    /\ answer = NoAnswer
    /\ NoPair
    /\ Idle

PromptFrame ==
    UNCHANGED <<body, double, analysis, answer, client, frames, cells, served,
                config, single, request, pc, calls, waited, tasks, approaches,
                responses, outcome, http, loop>>

\* _select_best_approach builds evaluation_prompt.
_select_best_approach ==
    /\ prompts.evaluation = NoPrompt
    /\ prompts' = [prompts EXCEPT
                      !.evaluation = EvaluationPrompt(<<Problem>>, prompts.approaches)]
    /\ PromptFrame

\* _analyze_consistency builds analysis_prompt.
_analyze_consistency ==
    /\ prompts.analysis = NoPrompt
    /\ prompts' = [prompts EXCEPT
                      !.analysis = AnalysisPrompt(<<Problem>>, prompts.responses)]
    /\ PromptFrame

PromptNext == _select_best_approach \/ _analyze_consistency

PromptSpec == PromptInit /\ [][PromptNext]_vars

(***************************************************************************)
(* get_gemini_client, initialize_gemini_client and get_prompting_service    *)
(* called by the threads of the server; a thread may be preempted between   *)
(* any two statements.                                                      *)
(***************************************************************************)
SingleInit ==
    /\ single = NoSingle
    /\ config = NoConfig
    /\ prompts = NoPrompts
    /\ analysis = <<>>
    /\ answer = NoAnswer
    /\ NoPair
    /\ Idle

SingleFrame ==
    UNCHANGED <<body, double, analysis, answer, client, frames, cells, served,
                config, prompts, request, pc, calls, waited, tasks, approaches,
                responses, outcome, http, loop>>

SingleOps == {"get_gemini_client", "initialize_gemini_client", "get_prompting_service"}

\* Thread t calls one of the three functions.
SingleCall(t, op) ==
    /\ single.threads[t].pc = "idle"
    /\ single.threads[t].made < MaxCalls
    /\ single' = [single EXCEPT
                     !.threads[t] =
                         [ op |-> op, got |-> 0, made |-> @.made + 1,
                           pc |-> CASE op = "get_gemini_client" -> "client_check"
                                    [] op = "initialize_gemini_client" -> "initialize"
                                    [] op = "get_prompting_service" -> "service_check" ]]
    /\ SingleFrame

\* get_gemini_client: if _gemini_client_instance is None
ClientCheck(t) ==
    /\ single.threads[t].pc = "client_check"
    /\ single' = [single EXCEPT
                     !.threads[t].pc =
                         IF single.gemini = 0 THEN "client_create" ELSE "client_return"]
    /\ SingleFrame

\* get_gemini_client: _gemini_client_instance = GeminiClient()
ClientCreate(t) ==
    /\ single.threads[t].pc = "client_create"
    /\ single' = [single EXCEPT !.clients = @ + 1,
                                !.gemini = single.clients + 1,
                                !.threads[t].pc = "client_return"]
    /\ SingleFrame

\* get_gemini_client: return _gemini_client_instance -- to the caller, or to
\* PromptingService.__init__.
ClientReturn(t) ==
    /\ single.threads[t].pc = "client_return"
    /\ single' =
          IF single.threads[t].op = "get_gemini_client"
          THEN [single EXCEPT
                  !.threads[t].pc = "idle",
                  !.threads[t].got = single.gemini,
                  !.handed = @ \cup {[kind |-> "client", id |-> single.gemini]}]
          ELSE [single EXCEPT
                  !.threads[t].pc = "service_create",
                  !.threads[t].got = single.gemini]
    /\ SingleFrame

\* initialize_gemini_client: _gemini_client_instance = GeminiClient(api_key, model)
Initialize(t) ==
    /\ single.threads[t].pc = "initialize"
    /\ single' = [single EXCEPT !.clients = @ + 1,
                                !.gemini = single.clients + 1,
                                !.initialized = @ + 1,
                                !.threads[t].pc = "initialize_return"]
    /\ SingleFrame

\* initialize_gemini_client: return _gemini_client_instance
InitializeReturn(t) ==
    /\ single.threads[t].pc = "initialize_return"
    /\ single' = [single EXCEPT !.threads[t].pc = "idle",
                                !.threads[t].got = single.gemini]
    /\ SingleFrame

\* get_prompting_service: if _prompting_service_instance is None; when it
\* is, PromptingService() starts and its __init__ calls get_gemini_client().
ServiceCheck(t) ==
    /\ single.threads[t].pc = "service_check"
    /\ single' = [single EXCEPT
                     !.threads[t].pc =
                         IF single.service = 0 THEN "client_check" ELSE "service_return"]
    /\ SingleFrame

\* __init__: self.gemini_client = <what get_gemini_client returned>, then
\* get_prompting_service: _prompting_service_instance = <the new service>
ServiceCreate(t) ==
    /\ single.threads[t].pc = "service_create"
    /\ single' = [single EXCEPT
                     !.services = Append(@, single.threads[t].got),
                     !.service = Len(single.services) + 1,
                     !.threads[t].pc = "service_return"]
    /\ SingleFrame

\* get_prompting_service: return _prompting_service_instance
ServiceReturn(t) ==
    /\ single.threads[t].pc = "service_return"
    /\ single' = [single EXCEPT
                     !.threads[t].pc = "idle",
                     !.threads[t].got = single.service,
                     !.handed = @ \cup {[kind |-> "service", id |-> single.service]}]
    /\ SingleFrame

SingleNext ==
    \E t \in Threads :
        \/ \E op \in SingleOps : SingleCall(t, op)
        \/ ClientCheck(t)
        \/ ClientCreate(t)
        \/ ClientReturn(t)
        \/ Initialize(t)
        \/ InitializeReturn(t)
        \/ ServiceCheck(t)
        \/ ServiceCreate(t)
        \/ ServiceReturn(t)

SingleSpec == SingleInit /\ [][SingleNext]_vars

\* The steps the handler's thread takes by itself.
Progress ==
    \/ explore_problem
    \/ validate_consistency
    \/ IssueApproach
    \/ IssueEvaluation
    \/ RunTask
    \/ GatherReturn
    \/ GatherRaise
    \/ DoubleSamples

\* The handler's thread keeps running, a call on a double comes back, time
\* passes and thread.join(timeout) returns when it has; the remote model
\* need not ever answer.
LiveSpec ==
    /\ Spec
    /\ WF_vars(Progress)
    /\ WF_vars(DoubleReturn \/ DoubleRaise)
    /\ WF_vars(Tick)
    /\ WF_vars(JoinTimeout)

\* Wall-clock time passes and thread.join(timeout) returns when it has.
FairSpec == Spec /\ WF_vars(Tick) /\ WF_vars(JoinTimeout)

(***************************************************************************)
(* Properties                                                              *)
(***************************************************************************)
IsSuffix(s, t) ==
    Len(s) <= Len(t) /\ SubSeq(t, Len(t) - Len(s) + 1, Len(t)) = s

FanOutCalls == {k \in DOMAIN calls : calls[k].role \in {"approach", "sample"}}
SynthesisCalls == {k \in DOMAIN calls : calls[k].role = "synthesis"}
FailedCalls == {k \in DOMAIN calls : calls[k].phase = "raised"}
FirstFailedCall == CHOOSE k \in FailedCalls : \A j \in FailedCalls : k <= j

\* The number of fan-out requests the operation is to make.
FanOutSize ==
    IF request.kind = "validate" THEN request.n
    ELSE IF request.n <= 3 THEN request.n ELSE 3

\* C1: once a fan-out call has failed no result is ever returned, and when
\* the operation ends it has raised an error that ends with the message
\* raised by the first fan-out call that failed.
C1_FanOutFailureAborts ==
    (FanOutCalls \cap FailedCalls # {}) =>
        /\ outcome.kind # "result"
        /\ http.status # 200
        /\ http.data = NoData
        /\ pc = "done" =>
              /\ outcome.kind = "raised"
              /\ IsSuffix(calls[FirstFailedCall].out, outcome.value)

\* C1 witness: a validation ended where the first sample succeeded, the
\* second failed and a later one failed differently.
C1_Witness ==
    /\ pc = "done"
    /\ request.kind = "validate"
    /\ Len(tasks) >= 3
    /\ tasks[1].state = "done"
    /\ tasks[2].state = "failed"
    /\ tasks[3].state = "failed"
    /\ tasks[3].value # tasks[2].value
    /\ outcome.kind = "raised"

C4_ApproachesCapped ==
    (request.kind = "explore" /\ pc = "done"
        /\ request.n \in MinApproaches..MaxApproaches /\ FailedCalls = {}) =>
        /\ outcome.kind = "result"
        /\ LET out == outcome.value.output
               expected == IF request.n <= 3 THEN request.n ELSE 3
           IN  /\ Len(out.explored_approaches) = expected
               /\ out.total_approaches = expected
               /\ \A k \in DOMAIN out.explored_approaches :
                     out.explored_approaches[k].approach_name \in
                         { "Direct Analytical Method",
                           "Creative Innovation Method",
                           "Systematic Process Method" }

\* C5: every fan-out request has been started before any of them has
\* completed.
C5_AllStartedBeforeAnyCompletes ==
    \A k \in FanOutCalls :
        calls[k].phase # "waiting" => Cardinality(FanOutCalls) = FanOutSize

C8_WaitBounded ==
    /\ [](waited <= TicksPerTimeout)
    /\ [](\A k \in DOMAIN calls :
             calls[k].cause = "timeout" =>
                 /\ calls[k].phase = "raised"
                 /\ IsSuffix(TimeoutMsg, calls[k].out))
    /\ ((Open /\ ~double) ~> ~Open)

\* C8 witness: the operation ended although a remote call never completed.
C8_Witness ==
    /\ pc = "done"
    /\ \E k \in DOMAIN calls :
          /\ calls[k].cause = "timeout"
          /\ calls[k].thread = "alive"
          /\ calls[k].cell = NoCell

\* The three outcomes of a failed generate_response, told apart by what is raised.
IsRateLimited(out) == out = RateLimitMsg
IsTimeout(out) == Contains(out, TimeoutMsg[1])
IsGenerationFailed(out) == out # <<>> /\ out[1] = "Failed to generate response: "

\* C9: a failure of generate_response is exactly one of RateLimited (the
\* remote signalled quota exhaustion), Timeout (the bound was exceeded) and
\* GenerationFailed (any other remote error, wrapping its message).
C9_ThreeOutcomes ==
    \A k \in {j \in FailedCalls : calls[j].cause # "double"} :
        LET c == calls[k]
        IN  /\ IsRateLimited(c.out) <=> (c.cause = "remote" /\ c.quota)
            /\ IsTimeout(c.out) <=> (c.cause = "timeout")
            /\ IsGenerationFailed(c.out) <=> (c.cause = "remote" /\ ~c.quota)
            /\ (c.cause = "remote" /\ ~c.quota) =>
                   c.out = <<"Failed to generate response: ">> \o c.cell.value

\* C10 as stated: when any generation call failed as RateLimited the
\* endpoint answers 429 RATE_LIMIT_EXCEEDED.
C10_AnyRateLimitedAnswers429 ==
    (pc = "done" /\ \E k \in FailedCalls : IsRateLimited(calls[k].out)) =>
        /\ http.status = 429
        /\ http.code = "RATE_LIMIT_EXCEEDED"

\* C10 amended: when the first generation call to fail failed as RateLimited
\* the endpoint answers 429 RATE_LIMIT_EXCEEDED.
C10_FirstRateLimitedAnswers429 ==
    (pc = "done" /\ FailedCalls # {} /\ IsRateLimited(calls[FirstFailedCall].out)) =>
        /\ http.status = 429
        /\ http.code = "RATE_LIMIT_EXCEEDED"
        /\ IsSuffix(RateLimitMsg, outcome.value)

\* C10 witness: the second sample was rate limited, a later one failed
\* otherwise, and the answer through both wrapping layers is 429.
C10_Witness ==
    /\ pc = "done"
    /\ request.kind = "validate"
    /\ Len(tasks) >= 3
    /\ tasks[1].state = "done"
    /\ tasks[2].state = "failed"
    /\ tasks[2].value = RateLimitMsg
    /\ tasks[3].state = "failed"
    /\ tasks[3].value # RateLimitMsg
    /\ Len(outcome.value) = 4
    /\ http.status = 429

\* C11: no generation request is retried: the calls made are pairwise
\* different requests (no approach, sample or synthesis is issued twice, so
\* none that failed or timed out is issued again), and an operation never
\* makes more calls than its fan-out requests and one synthesis.
C11_NoRetry ==
    /\ \A j, k \in DOMAIN calls :
          (calls[j].role = calls[k].role /\ calls[j].index = calls[k].index) => j = k
    /\ Len(calls) <= FanOutSize + 1
    /\ \A k \in FailedCalls : \A j \in DOMAIN calls :
          j > k => <<calls[j].role, calls[j].index>> # <<calls[k].role, calls[k].index>>

\* C11 witness: the first sample timed out, the second failed remotely, and
\* the validation ended having made one call per sample.
C11_Witness ==
    /\ pc = "done"
    /\ request.kind = "validate"
    /\ request.n = 3
    /\ Len(calls) = 3
    /\ calls[1].cause = "timeout"
    /\ calls[2].cause = "remote"
    /\ calls[3].phase = "returned"
CountRange ==
    IF body.kind = "explore" THEN MinApproaches..MaxApproaches ELSE MinSamples..MaxSamples
BadCount ==
    body.n.type # "absent" /\ ~(body.n.type = "int" /\ body.n.v \in CountRange)
NoText ==
    \/ body.text.type \in {"absent", "null"}
    \/ body.text.type = "str" /\ Strip(body.text.s) = <<>>

\* C16: a request whose count is not an integer in the endpoint's range, or
\* whose text is missing or blank, issues no generation request and is
\* answered 400 VALIDATION_ERROR.
C16_InvalidAnswers400 ==
    (body.raw = "object" /\ (BadCount \/ NoText)) =>
        /\ calls = <<>>
        /\ pc = "done" => (http.status = 400 /\ http.code = "VALIDATION_ERROR")

\* C19: a request that declares JSON and carries no body, an empty body or
\* something that is not JSON issues no generation request and is answered
\* 400.
C19_NoJsonAnswers400 ==
    body.raw \in {"missing", "empty", "invalid"} =>
        /\ calls = <<>>
        /\ pc = "done" => http.status = 400

\* C20: when a sample of a validation has failed nothing is cancelled: at the
\* end every sample has been requested and has run to its own end (an answer,
\* an error or its timeout), a worker left behind by a timeout is alive or
\* has finished by itself, and what the other samples answered is ignored:
\* the operation raises the first failure and makes no synthesis request.
C20_NothingCancelled ==
    (request.kind = "validate" /\ pc = "done"
        /\ \E k \in DOMAIN tasks : tasks[k].state = "failed") =>
        LET first == CHOOSE k \in DOMAIN tasks :
                         /\ tasks[k].state = "failed"
                         /\ \A j \in 1..(k - 1) : tasks[j].state # "failed"
        IN  /\ Len(calls) = request.n
            /\ \A k \in DOMAIN tasks :
                  /\ tasks[k].state \in {"done", "failed"}
                  /\ calls[k].role = "sample"
                  /\ calls[k].index = k
                  /\ calls[k].phase \in {"returned", "raised"}
                  /\ calls[k].thread \in {"alive", "finished"}
                  /\ calls[k].thread = "alive" => calls[k].cause = "timeout"
            /\ outcome.kind = "raised"
            /\ outcome.value = ServiceError("validate", MultipleError(tasks[first].value))
            /\ http.data = NoData

\* C20 witness: the first of three samples failed, the second then timed
\* out, the third then answered, and the validation ended with an error.
C20_Witness ==
    /\ pc = "done"
    /\ request.kind = "validate"
    /\ request.n = 3
    /\ Len(tasks) = 3
    /\ tasks[1].state = "failed"
    /\ calls[1].cause = "remote"
    /\ calls[2].cause = "timeout"
    /\ tasks[3].state = "done"
    /\ calls[3].out = <<" ", "A">>
    /\ http.status = 500

\* What generate_response gives for the k-th call of operation o, from what
\* the remote did for that call.
ServedOut(o, k) ==
    IF served[o][k].kind = "text" THEN served[o][k].value
    ELSE Reraise(served[o][k].value)

\* What operation o raises when it runs alone and the remote does for its
\* calls what it did for them here.
AloneOutcome(o) ==
    LET kind == frames[o].kind
        bad == {k \in 1..frames[o].n : served[o][k].kind # "text"}
        first == CHOOSE k \in bad : \A j \in bad : k <= j
    IN  [ kind |-> "raised",
          value |-> IF kind = "explore"
                    THEN <<"Tree-of-thought exploration failed: ">> \o MissingArgumentMsg
                    ELSE IF bad # {}
                    THEN <<"Self-consistency validation failed: ",
                           "Failed to generate multiple responses: ">>
                         \o ServedOut(o, first)
                    ELSE <<"Self-consistency validation failed: ">> \o MissingArgumentMsg ]

C18_ClientSafe ==
    /\ client = TheClient
    /\ \A o \in DOMAIN frames : \A k \in DOMAIN frames[o].calls :
          LET c == frames[o].calls[k]
          IN  /\ c.phase = "returned" =>
                    (served[o][k].kind = "text" /\ c.out = RemoteAnswer(o, k))
              /\ c.phase = "raised" =>
                    (served[o][k].kind \in {"error", "timeout"} /\ c.out = ServedOut(o, k))

\* C18 witness: both operations wait in thread.join while the workers of
\* both calls have stored their results, each in its own cell.
C18_Witness ==
    /\ frames # <<>>
    /\ OpenCall(frames[1])
    /\ OpenCall(frames[2])
    /\ cells[<<1, Len(frames[1].calls)>>].value = RemoteAnswer(1, Len(frames[1].calls))
    /\ cells[<<2, Len(frames[2].calls)>>].value = RemoteAnswer(2, Len(frames[2].calls))
    /\ client = TheClient

\* The lines of the analysis that hold one of the keywords, in any case.
KeywordLines ==
    {i \in DOMAIN Split(analysis) :
        \E k \in DOMAIN Split(analysis)[i] :
            Split(analysis)[i][k] \in {"Most Consistent", "most reliable"}}

\* The lines of the analysis longer than ten characters once trimmed.
LongLines ==
    {i \in DOMAIN Split(analysis) : TextLen(Strip(Split(analysis)[i])) > MeaningfulLen}

\* C12: when a line of the analysis contains "most consistent" or "most
\* reliable" in any case, the answer is the first such line, trimmed, whatever
\* the last long line is.
C12_FirstKeywordLine ==
    (answer # NoAnswer /\ KeywordLines # {}) =>
        \E i \in KeywordLines :
            /\ \A j \in KeywordLines : i <= j
            /\ answer = Strip(Split(analysis)[i])

\* C12 witness: a blank, the capitalised keyword, a newline and the other
\* keyword: the answer is the first line without its blank, not the last line.
C12_Witness ==
    /\ answer = <<"Most Consistent">>
    /\ Len(Split(analysis)) = 2
    /\ Split(analysis)[1] = <<" ", "Most Consistent">>
    /\ Split(analysis)[2] = <<"most reliable">>
    /\ LongLines = {1, 2}

\* C13: when no line contains a keyword the answer is the last line longer
\* than ten characters once trimmed, trimmed; when there is none, as for the
\* empty text, it is "Analysis inconclusive".
C13_LastLongLine ==
    (answer # NoAnswer /\ KeywordLines = {}) =>
        IF LongLines # {}
        THEN \E i \in LongLines :
                /\ \A j \in LongLines : j <= i
                /\ answer = Strip(Split(analysis)[i])
        ELSE answer = <<"Analysis inconclusive">>

\* C13 witness: a line of eleven characters followed by a line of ten
\* characters and a blank: the answer is the line of eleven.
C13_Witness ==
    /\ KeywordLines = {}
    /\ Len(Split(analysis)) = 2
    /\ TextLen(Split(analysis)[1]) = MeaningfulLen + 1
    /\ TextLen(Strip(Split(analysis)[2])) = MeaningfulLen
    /\ Split(analysis)[2] # Strip(Split(analysis)[2])
    /\ answer = Split(analysis)[1]
\* C21: a call that timed out stays the timeout failure whatever its worker
\* stores afterwards, and the answer its worker stored late is the output of
\* no call of either operation and part of no result.
C21_LateResultDiscarded ==
    \A o \in DOMAIN frames : \A k \in DOMAIN frames[o].calls :
        served[o][k].kind = "timeout" =>
            /\ frames[o].calls[k].phase = "raised"
            /\ frames[o].calls[k].cause = "timeout"
            /\ frames[o].calls[k].out = <<"Failed to generate response: ">> \o TimeoutMsg
            /\ \A p \in DOMAIN frames : \A j \in DOMAIN frames[p].calls :
                  frames[p].calls[j].out # RemoteAnswer(o, k)
            /\ \A p \in DOMAIN frames :
                  /\ \A j \in DOMAIN frames[p].approaches :
                        frames[p].approaches[j].solution # Strip(RemoteAnswer(o, k))
                  /\ \A j \in DOMAIN frames[p].tasks :
                        frames[p].tasks[j].value # RemoteAnswer(o, k)

\* C21 witness: the first sample of a validation timed out, its worker then
\* stored its answer, and the second sample has returned since.
C21_Witness ==
    /\ frames # <<>>
    /\ frames[1].kind = "validate"
    /\ Len(frames[1].calls) >= 2
    /\ served[1][1].kind = "timeout"
    /\ frames[1].calls[1].thread = "finished"
    /\ cells[<<1, 1>>] = [kind |-> "result", value |-> RemoteAnswer(1, 1)]
    /\ frames[1].calls[2].phase = "returned"
    /\ OpenCall(frames[2])

\* C22: a temperature and a thinking budget passed to generate_response are
\* sent as they are, 0 included, and the client's defaults are sent exactly
\* for the arguments that are None.
C22_ExplicitValuesSent ==
    config.sent =>
        /\ config.sent_temperature =
              IF config.temperature.set THEN config.temperature.v
              ELSE client.default_temperature
        /\ config.sent_thinking_budget =
              IF config.thinking_budget.set THEN config.thinking_budget.v
              ELSE client.default_thinking_budget

\* C23: the evaluation prompt holds every candidate once, in order, with its
\* number, its name and the first 200 characters of its solution (the whole
\* solution when it is shorter); the analysis prompt holds every sample
\* once, in order, in full.
C23_PromptsHoldCandidatesAndSamples ==
    /\ prompts.evaluation # NoPrompt =>
          LET items == prompts.evaluation.items
              cands == prompts.approaches
          IN  /\ Len(items) = Len(cands)
              /\ \A k \in DOMAIN cands :
                    /\ items[k].number = k
                    /\ items[k].name = approach_names[k]
                    /\ Len(items[k].body) <= PreviewLen
                    /\ Len(items[k].body) <= Len(cands[k].solution)
                    /\ items[k].body = SubSeq(cands[k].solution, 1, Len(items[k].body))
                    /\ Len(items[k].body) < PreviewLen =>
                          items[k].body = cands[k].solution
    /\ prompts.analysis # NoPrompt =>
          LET items == prompts.analysis.items
          IN  /\ Len(items) = Len(prompts.responses)
              /\ \A k \in DOMAIN items :
                    /\ items[k].number = k
                    /\ items[k].body = prompts.responses[k]

\* C23 witness: both prompts are built; the second candidate's solution of
\* 201 characters is cut to its first 200, the third's single character is
\* whole, and the first sample of 250 characters is whole.
C23_Witness ==
    /\ prompts.evaluation # NoPrompt
    /\ prompts.analysis # NoPrompt
    /\ Len(prompts.approaches) = 3
    /\ Len(prompts.approaches[2].solution) = PreviewLen + 1
    /\ prompts.evaluation.items[2].body = Fill(PreviewLen, "a")
    /\ prompts.evaluation.items[3].body = <<"A">>
    /\ Len(prompts.responses) = MaxSamples
    /\ Len(prompts.analysis.items[1].body) = PreviewLen + 50
    /\ prompts.analysis.items[2].body = <<"A">>

C25_CountPassedInRange ==
    request.text # <<>> =>
        /\ body.n.type \in {"absent", "int"}
        /\ request.n \in CountRange
        /\ body.n.type = "absent" => request.n = DefaultCount
        /\ body.n.type = "int" => request.n = body.n.v

\* C26: a request is answered 429 exactly when one of its generation calls
\* was classified RateLimited by generate_response, and a request one of
\* whose calls failed as Timeout or GenerationFailed, none as RateLimited, is
\* answered 500.
C26_LayersClassifyAlike ==
    (pc = "done" /\ ~double) =>
        /\ http.status = 429 <=> \E k \in FailedCalls : IsRateLimited(calls[k].out)
        /\ (FailedCalls # {} /\ \A k \in FailedCalls : ~IsRateLimited(calls[k].out)) =>
              http.status = 500

\* C27: as long as the client is only initialised lazily, at most one
\* GeminiClient and at most one PromptingService are ever constructed, and
\* all callers of get_gemini_client (of get_prompting_service) are handed
\* the same instance.
C27_SingletonsUnique ==
    single.initialized = 0 =>
        /\ single.clients <= 1
        /\ Len(single.services) <= 1
        /\ \A a, b \in single.handed : a.kind = b.kind => a.id = b.id

\* C28: after any sequence of calls of the three functions (made one after
\* the other, here by the first thread), the service holds the client that
\* get_gemini_client returns.
C28_ServiceHoldsCurrentClient ==
    (single.threads[1].pc = "idle" /\ single.threads[2].made = 0
        /\ single.service # 0) =>
        single.services[single.service] = single.gemini

C30_OperationTerminates ==
    /\ <>(pc = "done")
    /\ [](Len(calls) <= FanOutSize + 1)
    /\ [](outcome.kind # "none" => loop = "closed")
    /\ [](pc = "done" => loop # "open")
    /\ [](loop = "open" => pc \in {"fanout", "synthesis"})

\* C30 witness: a validation of five samples ended with an error and a
\* closed loop although the remote answered none of its five requests.
C30_Witness ==
    /\ request.kind = "validate"
    /\ request.n = MaxSamples
    /\ pc = "done"
    /\ Len(calls) = MaxSamples
    /\ \A k \in DOMAIN calls : calls[k].cause = "timeout" /\ calls[k].thread = "alive"
    /\ outcome.kind = "raised"
    /\ loop = "closed"

====
